---- MODULE Spec2Model ----
(***************************************************************************)
(* Model of prep_data.py: a script that reads a YAML configuration, checks *)
(* the vocab-tree argument and runs three external commands (feature       *)
(* extraction, feature matching, mapping) one after the other.             *)
(* A second specification, VocabSpec, models vocab_tree.py: the cached      *)
(* download of the vocabulary tree over a sequence of calls.  A third,      *)
(* UtilsSpec, models utils/log_utils.py, whose functions take the console   *)
(* as an argument.                                                         *)
(*                                                                         *)
(* Strings the code inspects character by character (the vocab-tree path,  *)
(* the operator's answer) are sequences of one-character strings, the      *)
(* output of a command is a sequence of byte values and its decoded text a *)
(* sequence of code points; strings                                        *)
(* the code only compares or passes on are TLA+ strings.  A Python dict is *)
(* a function whose DOMAIN is the set of keys present.                     *)
(***************************************************************************)
EXTENDS Integers, Sequences, FiniteSets, TLC

VARIABLES
    config_data,      \* the dict yaml.load returns for the configuration file
    output_dir,       \* --output_dir
    vocab_tree_path,  \* --vocab_tree_path (None when the option is not given)
    prompt,           \* -p / --prompt
    verbose,          \* -v / --verbose
    console,          \* the rich console run_command and the prompt write to
    dirs,             \* file system: paths that are directories
    files,            \* file system: paths that are regular files
    made,             \* the directories run_sfm has created
    pc,               \* position of run_sfm
    stage,            \* index of the stage run_sfm is at (1..3)
    preper,           \* the Preper object, once constructed
    prompts,          \* history of input() calls: <<[stage, command_name, choice]>>
    invoked,          \* history of subprocess.run calls:
                      \*   <<[stage, args, cmd, returncode]>>
    console_out,      \* what run_command has printed on the console
    error,            \* the exception that ended the run, if any
    exit_code,        \* {} while the process runs, {c} once it has exited with c
    \* vocab_tree.py
    vt_pc,            \* position of get_vocab_tree ("idle" between two calls)
    cache_exists,     \* vocab_tree_filename.exists()
    cache_content,    \* the chunks written to the cache file
    response,         \* the response r of the call in progress
    requests,         \* number of requests.get calls issued so far
    vt_call,          \* the call in progress: [existed, requests]
    vt_calls          \* history of the calls that have ended:
                      \*   <<[outcome, existed, requests, path, exists, content]>>

vocab_vars == <<vt_pc, cache_exists, cache_content, response, requests, vt_call,
                vt_calls>>

vars == <<config_data, output_dir, vocab_tree_path, prompt, verbose, console,
          dirs, files, made, pc, stage, preper, prompts, invoked, console_out, error,
          exit_code, vocab_vars>>

inputs == <<config_data, output_dir, vocab_tree_path, prompt, verbose, console>>

-----------------------------------------------------------------------------
(* Bounds and input sets                                                    *)

MaxReturnCode == 2

MaxCalls == 3

MaxChunks == 2

ReturnCodes == 0..MaxReturnCode

\* The module-level Console of prep_data.py, and the None that
\* utils/log_utils.run_command has as the default of its console argument.
CONSOLE == "CONSOLE"

NoConsole == "None"

\* Byte strings, as sequences of byte values.
Bytes_oom == << 111, 117, 116, 32, 111, 102, 32, 109, 101, 109, 111, 114, 121 >>

\* What a command may have written to its standard error: nothing,
\* "out of memory", "caf\xc3\xa9" (UTF-8 of a two-byte character), the bytes
\* ff fe (not UTF-8), and four texts with square brackets: "[b]x[/bold]",
\* "[/tag]", "x[1]" and "[rgb(,,)]x".
StderrBytes ==
    { <<>>,
      Bytes_oom,
      << 99, 97, 102, 195, 169 >>,
      << 255, 254 >>,
      << 91, 98, 93, 120, 91, 47, 98, 111, 108, 100, 93 >>,
      << 91, 47, 116, 97, 103, 93 >>,
      << 120, 91, 49, 93 >>,
      << 91, 114, 103, 98, 40, 44, 44, 41, 93, 120 >> }

\* What a command may have written to its standard output.
StdoutBytes == { <<>>, << 111, 107 >>, << 255, 254 >> }

\* Python's None, for an argument that is otherwise a character sequence.
None == <<"<None>">>

Str_fbow == <<".", "f", "b", "o", "w">>

VocabTreePaths ==
    { None,
      <<"t">> \o Str_fbow,              \* "t.fbow"
      Str_fbow,                         \* ".fbow"
      <<"t", ".", "b", "i", "n">>,      \* "t.bin"
      <<"f", "b", "o", "w">> }          \* "fbow"

Responses ==
    { <<"y">>, <<"n">>, <<"N">>, <<>>, <<"n", "o">> }

\* Standard input is at end of file: input() has no line to return.
EOF == <<"<EOF>">>

\* Values offered for each key of the configuration file.
ConfigValues ==
    [ train_method    |-> {"nerfacto", "dreamfusion"},
      sfm_tool        |-> {"colmap", "glomap", "meshroom"},
      matching_method |-> {"exhaustive", "sequential", "vocab_tree", "spatial"},
      database_path   |-> {"db.db"},
      image_dir       |-> {"imgs"},
      camera_model    |-> {"OPENCV", "RADIAL"},
      use_gpu         |-> {0, 1, 2} ]

-----------------------------------------------------------------------------
(* Preper and read_config_file                                              *)

\* The dataclass fields, in declaration order.
Fields ==
    << "train_method", "sfm_tool", "matching_method", "database_path",
       "image_dir", "camera_model", "use_gpu" >>

\* __args__ of the fields annotated with a Literal type; the Path fields have
\* no __args__ and are not validated.
Allowed ==
    [ train_method    |-> {"nerfacto", "splatfacto"},
      sfm_tool        |-> {"colmap", "glomap"},
      matching_method |-> {"exhaustive", "sequential", "vocab_tree"},
      camera_model    |-> {"OPENCV", "OPENCV_FISHEYE", "EQUIRECTANGULAR",
                           "PINHOLE", "SIMPLE_PINHOLE"},
      use_gpu         |-> {0, 1} ]

\* The default values the dataclass declares.  The two Path fields default to
\* Path(""), which pathlib normalises to the current directory: str() of it, and
\* so the text an f-string renders, is ".".
Defaults ==
    [ train_method    |-> "nerfacto",
      sfm_tool        |-> "colmap",
      matching_method |-> "vocab_tree",
      database_path   |-> ".",
      image_dir       |-> ".",
      camera_model    |-> "OPENCV",
      use_gpu         |-> 1 ]

Min(S) == CHOOSE m \in S : \A n \in S : m <= n

\* Preper.__post_init__: the first field, in declaration order, whose value is
\* not among the allowed values raises ValueError.  (The second test of the
\* loop, for a None value, is never reached: None is in no allowed set.)
BadFields(p) ==
    { i \in 1..Len(Fields) :
        /\ Fields[i] \in DOMAIN Allowed
        /\ p[Fields[i]] \notin Allowed[Fields[i]] }

post_init(p) ==
    IF BadFields(p) # {}
    THEN LET f == Fields[Min(BadFields(p))]
         IN  [ kind |-> "ValueError", field |-> f, value |-> p[f],
               allowed |-> Allowed[f] ]
    ELSE [ kind |-> "ok", preper |-> p ]

\* read_config_file: data['train_method'], data['sfm_tool'], ... are evaluated
\* in this order before Preper is constructed; the first absent key raises
\* KeyError.  Keys of the file that are not fields are never read.
MissingKeys(data) == { i \in 1..Len(Fields) : Fields[i] \notin DOMAIN data }

read_config_file(data) ==
    IF MissingKeys(data) # {}
    THEN [ kind |-> "KeyError", field |-> Fields[Min(MissingKeys(data))] ]
    ELSE post_init([ f \in { Fields[i] : i \in 1..Len(Fields) } |-> data[f] ])

-----------------------------------------------------------------------------
(* Helpers of Python's str                                                  *)

\* str.endswith
EndsWith(s, suffix) ==
    /\ Len(s) >= Len(suffix)
    /\ SubSeq(s, Len(s) - Len(suffix) + 1, Len(s)) = suffix

\* str.lower of a character: the capitals A-Z have a lower-case form (the
\* answers of the model are ASCII).
LowerCase ==
    [ A |-> "a", B |-> "b", C |-> "c", D |-> "d", E |-> "e", F |-> "f",
      G |-> "g", H |-> "h", I |-> "i", J |-> "j", K |-> "k", L |-> "l",
      M |-> "m", N |-> "n", O |-> "o", P |-> "p", Q |-> "q", R |-> "r",
      S |-> "s", T |-> "t", U |-> "u", V |-> "v", W |-> "w", X |-> "x",
      Y |-> "y", Z |-> "z" ]

LowerChar(c) == IF c \in DOMAIN LowerCase THEN LowerCase[c] ELSE c

\* Mutant: the answer is compared as typed.
Lower_AsTyped(s) == s

Lower(s) == [ i \in 1..Len(s) |-> LowerChar(s[i]) ]

-----------------------------------------------------------------------------
(* bytes.decode("utf-8") and the console markup of rich                     *)

\* bytes.decode("utf-8"), strict: the text as a sequence of code points, or
\* UnicodeDecodeError.  A lead byte fixes the length of its sequence and the
\* range of the second byte; the other bytes are continuation bytes.
RECURSIVE decode_utf8(_)
decode_utf8(b) ==
    IF b = <<>>
    THEN [ kind |-> "ok", text |-> <<>> ]
    ELSE LET c  == b[1]
             n  == CASE c \in 0..127   -> 1
                     [] c \in 194..223 -> 2
                     [] c \in 224..239 -> 3
                     [] c \in 240..244 -> 4
                     [] OTHER          -> 0
             lo == CASE c = 224 -> 160 [] c = 240 -> 144 [] OTHER -> 128
             hi == CASE c = 237 -> 159 [] c = 244 -> 143 [] OTHER -> 191
             wellformed ==
                 /\ n > 0
                 /\ Len(b) >= n
                 /\ n >= 2 => b[2] \in lo..hi
                 /\ \A k \in 3..n : b[k] \in 128..191
         IN  IF ~ wellformed
             THEN [ kind |-> "UnicodeDecodeError" ]
             ELSE LET cp   == CASE n = 1 -> c
                                [] n = 2 -> (c - 192) * 64 + (b[2] - 128)
                                [] n = 3 -> (c - 224) * 4096 + (b[2] - 128) * 64
                                            + (b[3] - 128)
                                [] n = 4 -> (c - 240) * 262144
                                            + (b[2] - 128) * 4096
                                            + (b[3] - 128) * 64 + (b[4] - 128)
                      rest == decode_utf8(SubSeq(b, n + 1, Len(b)))
                  IN  IF rest.kind = "ok"
                      THEN [ kind |-> "ok", text |-> << cp >> \o rest.text ]
                      ELSE rest

\* Code points of "[", "]", "/", the blank, "#", "," and the parentheses.
LBracket == 91

RBracket == 93

Slash == 47

Blank == 32

Hash == 35

Comma == 44

LParen == 40

RParen == 41

Digits == 48..57

\* The characters a markup tag may start with: a-z, "#", "/" and "@".
TagOpenChars == (97..122) \cup { Hash, Slash, 64 }

\* rich.markup.RE_TAGS at position i of text t: the index of the "]" that ends
\* the tag starting there, or 0 when no tag starts there.  A tag is "[", one
\* of TagOpenChars, then the shortest run without "[" up to a "]".
TagEnd(t, i) ==
    IF t[i] # LBracket \/ i + 1 > Len(t) THEN 0
    ELSE IF t[i + 1] \notin TagOpenChars THEN 0
    ELSE LET ends == { j \in (i + 2)..Len(t) :
                         /\ t[j] = RBracket
                         /\ \A k \in (i + 2)..(j - 1) : t[k] # LBracket }
         IN  IF ends = {} THEN 0 ELSE Min(ends)

\* The position of the first tag of t from position i on, or Len(t) + 1 when
\* there is none: the text before it is not markup.
NextTag(t, i) ==
    LET tags == { n \in i..Len(t) : TagEnd(t, n) # 0 }
    IN  IF tags = {} THEN Len(t) + 1 ELSE Min(tags)

\* chr(c) for the code points of the digits, "_" and a-z, the characters the
\* words of rich's tables are made of.
TableCodes == Digits \cup { 95 } \cup (97..122)

Chr(c) ==
    IF c \in Digits
    THEN << "0", "1", "2", "3", "4", "5", "6", "7", "8", "9" >>[c - 47]
    ELSE IF c = 95 THEN "_"
    ELSE << "a", "b", "c", "d", "e", "f", "g", "h", "i", "j", "k", "l", "m",
            "n", "o", "p", "q", "r", "s", "t", "u", "v", "w", "x", "y",
            "z" >>[c - 96]

RECURSIVE ToStr(_)
ToStr(t) == IF t = <<>> THEN "" ELSE Chr(Head(t)) \o ToStr(Tail(t))

\* A word as a string, to look it up in a table; "" for a word that holds a
\* character no word of the tables holds.
Word(t) == IF \A k \in 1..Len(t) : t[k] \in TableCodes THEN ToStr(t) ELSE ""

\* str.lower, str.strip and str.split on printable ASCII text: the blank is
\* the only white space there.
LowerText(t) == [ i \in 1..Len(t) |-> IF t[i] \in 65..90 THEN t[i] + 32 ELSE t[i] ]

Strip(t) ==
    LET solid == { i \in 1..Len(t) : t[i] # Blank }
    IN  IF solid = {} THEN <<>>
        ELSE SubSeq(t, Min(solid), CHOOSE m \in solid : \A n \in solid : n <= m)

RECURSIVE Split(_)
Split(t) ==
    LET s == Strip(t)
    IN  IF s = <<>> THEN <<>>
        ELSE LET blanks == { i \in 1..Len(s) : s[i] = Blank }
                 stop   == IF blanks = {} THEN Len(s) + 1 ELSE Min(blanks)
             IN  << SubSeq(s, 1, stop - 1) >> \o Split(SubSeq(s, stop, Len(s)))

\* str.split(",")
RECURSIVE SplitComma(_)
SplitComma(t) ==
    LET commas == { i \in 1..Len(t) : t[i] = Comma }
    IN  IF commas = {} THEN << t >>
        ELSE << SubSeq(t, 1, Min(commas) - 1) >>
             \o SplitComma(SubSeq(t, Min(commas) + 1, Len(t)))

\* int(digits) <= 255, for a string of digits that is not empty.
AtMost255(ds) ==
    LET nonzero == { i \in 1..Len(ds) : ds[i] # 48 }
        sig     == IF nonzero = {} THEN <<>> ELSE SubSeq(ds, Min(nonzero), Len(ds))
    IN  /\ Len(sig) <= 3
        /\ \/ Len(sig) < 3
           \/ (sig[1] - 48) * 100 + (sig[2] - 48) * 10 + (sig[3] - 48) <= 255

\* rich.style.Style.STYLE_ATTRIBUTES: the words that name an attribute.
STYLE_ATTRIBUTES ==
    [ dim |-> "dim", d |-> "dim", bold |-> "bold", b |-> "bold",
      italic |-> "italic", i |-> "italic", underline |-> "underline",
      u |-> "underline", blink |-> "blink", blink2 |-> "blink2",
      reverse |-> "reverse", r |-> "reverse", conceal |-> "conceal",
      c |-> "conceal", strike |-> "strike", s |-> "strike",
      underline2 |-> "underline2", uu |-> "underline2", frame |-> "frame",
      encircle |-> "encircle", overline |-> "overline", o |-> "overline" ]

\* The attributes in the order Style.__str__ writes them.
AttributeOrder ==
    << "bold", "dim", "italic", "underline", "blink", "blink2", "reverse",
       "conceal", "strike", "underline2", "frame", "encircle", "overline" >>

\* The code points of the words Style.__str__ writes.
AttributeCodes ==
    [ bold |-> << 98, 111, 108, 100 >>,
      dim |-> << 100, 105, 109 >>,
      italic |-> << 105, 116, 97, 108, 105, 99 >>,
      underline |-> << 117, 110, 100, 101, 114, 108, 105, 110, 101 >>,
      blink |-> << 98, 108, 105, 110, 107 >>,
      blink2 |-> << 98, 108, 105, 110, 107, 50 >>,
      reverse |-> << 114, 101, 118, 101, 114, 115, 101 >>,
      conceal |-> << 99, 111, 110, 99, 101, 97, 108 >>,
      strike |-> << 115, 116, 114, 105, 107, 101 >>,
      underline2 |-> << 117, 110, 100, 101, 114, 108, 105, 110, 101, 50 >>,
      frame |-> << 102, 114, 97, 109, 101 >>,
      encircle |-> << 101, 110, 99, 105, 114, 99, 108, 101 >>,
      overline |-> << 111, 118, 101, 114, 108, 105, 110, 101 >> ]

Codes_not == << 110, 111, 116 >>

Codes_on == << 111, 110 >>

Codes_link == << 108, 105, 110, 107 >>

Codes_none == << 110, 111, 110, 101 >>

\* " ".join(list) on sequences of code points
RECURSIVE JoinCodes(_)
JoinCodes(list) ==
    IF list = <<>> THEN <<>>
    ELSE IF Len(list) = 1 THEN list[1]
    ELSE list[1] \o << Blank >> \o JoinCodes(Tail(list))

\* rich.color.ANSI_COLOR_NAMES: the colour names.
ANSI_COLOR_NAMES ==
    { "black", "red", "green", "yellow", "blue", "magenta", "cyan", "white",
      "bright_black", "bright_red", "bright_green", "bright_yellow",
      "bright_blue", "bright_magenta", "bright_cyan", "bright_white",
      "grey0", "gray0", "navy_blue", "dark_blue", "blue3", "blue1",
      "dark_green", "deep_sky_blue4", "dodger_blue3", "dodger_blue2",
      "green4", "spring_green4", "turquoise4", "deep_sky_blue3",
      "dodger_blue1", "green3", "spring_green3", "dark_cyan",
      "light_sea_green", "deep_sky_blue2", "deep_sky_blue1", "spring_green2",
      "cyan3", "dark_turquoise", "turquoise2", "green1", "spring_green1",
      "medium_spring_green", "cyan2", "cyan1", "dark_red", "deep_pink4",
      "purple4", "purple3", "blue_violet", "orange4", "grey37", "gray37",
      "medium_purple4", "slate_blue3", "royal_blue1", "chartreuse4",
      "dark_sea_green4", "pale_turquoise4", "steel_blue", "steel_blue3",
      "cornflower_blue", "chartreuse3", "cadet_blue", "sky_blue3",
      "steel_blue1", "pale_green3", "sea_green3", "aquamarine3",
      "medium_turquoise", "chartreuse2", "sea_green2", "sea_green1",
      "aquamarine1", "dark_slate_gray2", "dark_magenta", "dark_violet",
      "purple", "light_pink4", "plum4", "medium_purple3", "slate_blue1",
      "yellow4", "wheat4", "grey53", "gray53", "light_slate_grey",
      "light_slate_gray", "medium_purple", "light_slate_blue",
      "dark_olive_green3", "dark_sea_green", "light_sky_blue3", "sky_blue2",
      "dark_sea_green3", "dark_slate_gray3", "sky_blue1", "chartreuse1",
      "light_green", "pale_green1", "dark_slate_gray1", "red3",
      "medium_violet_red", "magenta3", "dark_orange3", "indian_red",
      "hot_pink3", "medium_orchid3", "medium_orchid", "medium_purple2",
      "dark_goldenrod", "light_salmon3", "rosy_brown", "grey63", "gray63",
      "medium_purple1", "gold3", "dark_khaki", "navajo_white3", "grey69",
      "gray69", "light_steel_blue3", "light_steel_blue", "yellow3",
      "dark_sea_green2", "light_cyan3", "light_sky_blue1", "green_yellow",
      "dark_olive_green2", "dark_sea_green1", "pale_turquoise1",
      "deep_pink3", "magenta2", "hot_pink2", "orchid", "medium_orchid1",
      "orange3", "light_pink3", "pink3", "plum3", "violet",
      "light_goldenrod3", "tan", "misty_rose3", "thistle3", "plum2",
      "khaki3", "light_goldenrod2", "light_yellow3", "grey84", "gray84",
      "light_steel_blue1", "yellow2", "dark_olive_green1", "honeydew2",
      "light_cyan1", "red1", "deep_pink2", "deep_pink1", "magenta1",
      "orange_red1", "indian_red1", "hot_pink", "dark_orange", "salmon1",
      "light_coral", "pale_violet_red1", "orchid2", "orchid1", "orange1",
      "sandy_brown", "light_salmon1", "light_pink1", "pink1", "plum1",
      "gold1", "navajo_white1", "misty_rose1", "thistle1", "yellow1",
      "light_goldenrod1", "khaki1", "wheat1", "cornsilk1", "grey100",
      "gray100", "grey3", "gray3", "grey7", "gray7", "grey11", "gray11",
      "grey15", "gray15", "grey19", "gray19", "grey23", "gray23", "grey27",
      "gray27", "grey30", "gray30", "grey35", "gray35", "grey39", "gray39",
      "grey42", "gray42", "grey46", "gray46", "grey50", "gray50", "grey54",
      "gray54", "grey58", "gray58", "grey62", "gray62", "grey66", "gray66",
      "grey70", "gray70", "grey74", "gray74", "grey78", "gray78", "grey82",
      "gray82", "grey85", "gray85", "grey89", "gray89", "grey93", "gray93" }

\* rich.color.Color.parse of a word: "ok", or the exception.  A colour is
\* "default", a name, "#" and six hexadecimal digits, "color(n)" with n of one
\* to three digits and at most 255, or "rgb(r,g,b)" with three numbers of at
\* most 255; an empty number in rgb(...) makes int() raise ValueError.
Color_parse(word) ==
    LET parse(w) ==
            IF Word(w) = "default" \/ Word(w) \in ANSI_COLOR_NAMES THEN "ok"
            ELSE IF /\ Len(w) = 7
                    /\ w[1] = Hash
                    /\ \A k \in 2..7 : w[k] \in Digits \cup (97..102)
            THEN "ok"
            ELSE IF /\ Len(w) \in 8..10
                    /\ Word(SubSeq(w, 1, 5)) = "color"
                    /\ w[6] = LParen
                    /\ w[Len(w)] = RParen
                    /\ \A k \in 7..(Len(w) - 1) : w[k] \in Digits
            THEN IF AtMost255(SubSeq(w, 7, Len(w) - 1))
                 THEN "ok" ELSE "ColorParseError"
            ELSE IF /\ Len(w) >= 6
                    /\ Word(SubSeq(w, 1, 3)) = "rgb"
                    /\ w[4] = LParen
                    /\ w[Len(w)] = RParen
                    /\ \A k \in 5..(Len(w) - 1) : w[k] \in Digits \cup { Comma }
            THEN LET triplet(parts) ==
                         IF Len(parts) # 3 THEN "ColorParseError"
                         ELSE IF \E k \in 1..3 : parts[k] = <<>> THEN "ValueError"
                         ELSE IF \A k \in 1..3 : AtMost255(parts[k]) THEN "ok"
                         ELSE "ColorParseError"
                 IN  triplet(SplitComma(SubSeq(w, 5, Len(w) - 1)))
            ELSE "ColorParseError"
    IN  parse(LowerText(Strip(word)))

\* A style with nothing set.
NullStyle ==
    [ attributes |-> [ a \in {} |-> TRUE ], color |-> <<>>, bgcolor |-> <<>>,
      link |-> <<>> ]

\* Style.__str__: the attributes that are set, "not" before those set to
\* False, then the colour, "on" and the background colour, "link" and the
\* link; "none" when there is none of them.
Style_str(st) ==
    LET set    == { k \in 1..Len(AttributeOrder) :
                      AttributeOrder[k] \in DOMAIN st.attributes }
        word(k) == IF st.attributes[AttributeOrder[k]]
                   THEN AttributeCodes[AttributeOrder[k]]
                   ELSE Codes_not \o << Blank >> \o AttributeCodes[AttributeOrder[k]]
        nth[n \in 0..Cardinality(set)] ==
            IF n = 0 THEN <<>>
            ELSE Append(nth[n - 1],
                        word(CHOOSE k \in set :
                               Cardinality({ m \in set : m < k }) = n - 1))
        parts  == nth[Cardinality(set)]
                  \o (IF st.color # <<>> THEN << st.color >> ELSE <<>>)
                  \o (IF st.bgcolor # <<>> THEN << Codes_on, st.bgcolor >> ELSE <<>>)
                  \o (IF st.link # <<>> THEN << Codes_link, st.link >> ELSE <<>>)
    IN  IF parts = <<>> THEN Codes_none ELSE JoinCodes(parts)

\* attributes[attribute] = value
SetAttribute(st, attribute, value) ==
    [ st EXCEPT !.attributes =
        [ a \in DOMAIN @ \cup { attribute } |->
            IF a = attribute THEN value ELSE @[a] ] ]

\* The loop of Style.parse over the words from the k-th on: the style, or the
\* exception.  "on", "not" and "link" take the next word, as it is written.
RECURSIVE parse_words(_, _, _)
parse_words(words, k, st) ==
    IF k > Len(words)
    THEN [ kind |-> "ok", style |-> st ]
    ELSE LET step(word, next) ==
                 LET colour(c, n, style) ==
                         IF c = "ColorParseError"
                         THEN [ kind |-> "StyleSyntaxError" ]
                         ELSE IF c = "ValueError"
                         THEN [ kind |-> "ValueError" ]
                         ELSE parse_words(words, k + n, style)
                     attribute(a, n, value) ==
                         IF a \notin DOMAIN STYLE_ATTRIBUTES
                         THEN [ kind |-> "StyleSyntaxError" ]
                         ELSE parse_words(words, k + n,
                                  SetAttribute(st, STYLE_ATTRIBUTES[a], value))
                 IN  IF word = Codes_on
                     THEN IF next = <<>> THEN [ kind |-> "StyleSyntaxError" ]
                          ELSE colour(Color_parse(next), 2,
                                      [ st EXCEPT !.bgcolor = LowerText(next) ])
                     ELSE IF word = Codes_not
                     THEN attribute(Word(next), 2, FALSE)
                     ELSE IF word = Codes_link
                     THEN IF next = <<>> THEN [ kind |-> "StyleSyntaxError" ]
                          ELSE parse_words(words, k + 2,
                                           [ st EXCEPT !.link = next ])
                     ELSE IF Word(word) \in DOMAIN STYLE_ATTRIBUTES
                     THEN attribute(Word(word), 1, TRUE)
                     ELSE colour(Color_parse(word), 1,
                                 [ st EXCEPT !.color = word ])
         IN  step(LowerText(words[k]),
                  IF k < Len(words) THEN words[k + 1] ELSE <<>>)

\* rich.style.Style.normalize(name): str() of the parsed style, or the name
\* stripped and in lower case when it is not a style; ValueError passes.
normalize(name) ==
    IF Strip(name) = Codes_none \/ name = <<>>
    THEN [ kind |-> "ok", name |-> Codes_none ]
    ELSE LET parsed(p) ==
                 IF p.kind = "ok"
                 THEN [ kind |-> "ok", name |-> Style_str(p.style) ]
                 ELSE IF p.kind = "StyleSyntaxError"
                 THEN [ kind |-> "ok", name |-> LowerText(Strip(name)) ]
                 ELSE [ kind |-> "ValueError" ]
         IN  parsed(parse_words(Split(name), 1, NullStyle))

\* rich.markup.render from position i on, with the stack of the normalised
\* names of the tags that are open: the plain text, tags taken out, or
\* MarkupError when a closing tag matches no open tag ("[/name]") or there is
\* nothing to close ("[/]").  Names are matched after normalize.
\* (The texts of the model are printable characters, ASCII in tags, shorter
\* than the console is wide, and hold no backslash, "=", ":" or "@": escapes,
\* tag parameters, emoji codes and meta tags do not arise.)
RECURSIVE render(_, _, _)
render(t, i, stack) ==
    IF i > Len(t)
    THEN [ kind |-> "ok", plain |-> <<>> ]
    ELSE LET text(n, rest) ==
                 IF rest.kind = "ok"
                 THEN [ kind |-> "ok", plain |-> SubSeq(t, i, n - 1) \o rest.plain ]
                 ELSE rest
             opening(j, tag) ==
                 IF tag.kind # "ok"
                 THEN [ kind |-> tag.kind ]
                 ELSE render(t, j + 1, Append(stack, tag.name))
             pop(j, top) ==
                 render(t, j + 1, SubSeq(stack, 1, top - 1)
                                  \o SubSeq(stack, top + 1, Len(stack)))
             closing(j, style_name, style) ==
                 LET matching(open) ==
                         IF open = {}
                         THEN [ kind |-> "MarkupError" ]
                         ELSE pop(j, CHOOSE k \in open : \A m \in open : m <= k)
                 IN  IF style.kind # "ok"
                     THEN [ kind |-> style.kind ]
                     ELSE matching({ k \in 1..Len(stack) :
                                       \/ style_name = <<>>
                                       \/ stack[k] = style.name })
             close(j, style_name) ==
                 closing(j, style_name,
                         IF style_name = <<>>
                         THEN [ kind |-> "ok", name |-> <<>> ]
                         ELSE normalize(style_name))
             tag_at(j) ==
                 IF j = 0
                 THEN text(NextTag(t, i), render(t, NextTag(t, i), stack))
                 ELSE IF t[i + 1] # Slash
                 THEN opening(j, normalize(SubSeq(t, i + 1, j - 1)))
                 ELSE close(j, Strip(SubSeq(t, i + 2, j - 1)))
         IN  tag_at(TagEnd(t, i))

\* Console.print(text): what appears on the console, or the exception.
console_print(text) == render(text, 1, <<>>)

\* The texts the console can show for a standard error of StderrBytes.
StderrTexts ==
    { console_print(decode_utf8(b).text).plain :
        b \in { x \in StderrBytes :
                  /\ decode_utf8(x).kind = "ok"
                  /\ console_print(decode_utf8(x).text).kind = "ok" } }

-----------------------------------------------------------------------------
(* The file system, as pathlib sees it                                      *)

Parent(p) == SubSeq(p, 1, Len(p) - 1)

Exists(ds, fs, p) == p = <<>> \/ p \in ds \/ p \in fs

IsDir(ds, p) == p = <<>> \/ p \in ds

\* Path.mkdir(parents=True, exist_ok=True).  The result is the new set of
\* directories, or the exception os.mkdir raises.
RECURSIVE mkdir(_, _, _)
mkdir(ds, fs, p) ==
    IF Exists(ds, fs, p)
    THEN IF IsDir(ds, p)
         THEN [ kind |-> "ok", dirs |-> ds ]
         ELSE [ kind |-> "FileExistsError" ]
    ELSE IF Exists(ds, fs, Parent(p))
    THEN IF IsDir(ds, Parent(p))
         THEN [ kind |-> "ok", dirs |-> ds \cup {p} ]
         ELSE [ kind |-> "NotADirectoryError" ]
    ELSE LET up == mkdir(ds, fs, Parent(p))
         IN  IF up.kind = "ok"
             THEN [ kind |-> "ok", dirs |-> up.dirs \cup {p} ]
             ELSE up

\* sparse_dir = Path(output_dir) / preper.sfm_tool / "sparse"
sparse_dir(out, p) == << out, p.sfm_tool, "sparse" >>

\* File systems the run may start in.
FileSystems ==
    { [ dirs |-> {}, files |-> {} ],
      [ dirs |-> { <<"out">> }, files |-> {} ],
      [ dirs |-> { <<"out">>, <<"out", "colmap">>, <<"out", "colmap", "sparse">>,
                   <<"out", "glomap">>, <<"out", "glomap", "sparse">> },
        files |-> {} ],
      [ dirs |-> { <<"out">>, <<"out", "colmap">> },
        files |-> { <<"out", "colmap", "sparse">>, <<"out", "glomap">> } ] }

-----------------------------------------------------------------------------
(* run_sfm                                                                  *)

StageNames == << "feature extraction", "feature matching", "mapper" >>

NoError == [ kind |-> "none" ]

NoPreper == [ kind |-> "none" ]

NoResponse == [ content_length |-> FALSE, stream |-> <<>> ]

NoCall == [ existed |-> FALSE, requests |-> 0 ]

\* vocab_tree.py has not been run: there is no cache file.
VocabIdle ==
    /\ vt_pc = "idle"
    /\ cache_exists = FALSE
    /\ cache_content = <<>>
    /\ response = NoResponse
    /\ requests = 0
    /\ vt_call = NoCall
    /\ vt_calls = <<>>

Init ==
    /\ VocabIdle
    /\ \E present \in SUBSET DOMAIN ConfigValues :
       \E tm \in ConfigValues.train_method, st \in ConfigValues.sfm_tool,
          mm \in ConfigValues.matching_method, db \in ConfigValues.database_path,
          im \in ConfigValues.image_dir, cm \in ConfigValues.camera_model,
          ug \in ConfigValues.use_gpu :
          config_data =
              [ k \in present |->
                  CASE k = "train_method"    -> tm
                    [] k = "sfm_tool"        -> st
                    [] k = "matching_method" -> mm
                    [] k = "database_path"   -> db
                    [] k = "image_dir"       -> im
                    [] k = "camera_model"    -> cm
                    [] k = "use_gpu"         -> ug ]
    /\ output_dir = "out"
    /\ vocab_tree_path \in VocabTreePaths
    /\ prompt \in BOOLEAN
    /\ verbose \in BOOLEAN
    /\ console = CONSOLE
    /\ \E fsys \in FileSystems : dirs = fsys.dirs /\ files = fsys.files
    /\ made = {}
    /\ pc = "read_config"
    /\ stage = 1
    /\ preper = NoPreper
    /\ prompts = <<>>
    /\ invoked = <<>>
    /\ console_out = <<>>
    /\ error = NoError
    /\ exit_code = {}

\* Mutant: the exception is swallowed and the run does not end.
Raise_Swallowed(e) ==
    /\ error' = e
    /\ UNCHANGED <<exit_code, pc>>

\* An exception nobody catches ends the interpreter with exit status 1.
Raise(e) ==
    /\ error' = e
    /\ exit_code' = {1}
    /\ pc' = "exited"

\* Mutant: the exit status is dropped and the process ends with status 0.
SysExit_StatusZero(code) ==
    /\ error' = [ kind |-> "SystemExit", code |-> 0 ]
    /\ exit_code' = {0}
    /\ pc' = "exited"

\* sys.exit(code)
SysExit(code) ==
    /\ error' = [ kind |-> "SystemExit", code |-> code ]
    /\ exit_code' = {code}
    /\ pc' = "exited"

\* Mutant: the prompt flag is ignored.
BeforeStage_NoPrompt == "run"

\* Where run_sfm goes once a stage's command has been built: to the prompt when
\* prompting is on, else straight to the command.
BeforeStage == IF prompt THEN "prompt" ELSE "run"

\* preper = read_config_file(config_file)
ReadConfig ==
    /\ pc = "read_config"
    /\ LET r == read_config_file(config_data)
       IN  IF r.kind = "ok"
           THEN /\ preper' = r.preper
                /\ pc' = "check_vocab"
                /\ UNCHANGED <<error, exit_code>>
           ELSE /\ Raise(r)
                /\ UNCHANGED preper
    /\ UNCHANGED <<inputs, vocab_vars, dirs, files, made, stage, prompts, invoked, console_out>>

\* The vocab-tree check.  vocab_tree_path.endswith is evaluated first, so a None
\* path raises AttributeError there and the elif branch is never taken.
CheckVocabTree ==
    /\ pc = "check_vocab"
    /\ IF preper.matching_method = "vocab_tree"
       THEN IF vocab_tree_path = None
            THEN Raise([ kind |-> "AttributeError" ])
            ELSE IF ~ EndsWith(vocab_tree_path, Str_fbow)
            THEN Raise([ kind |-> "FileNotFoundError" ])
            ELSE /\ pc' = BeforeStage
                 /\ UNCHANGED <<error, exit_code>>
       ELSE /\ pc' = BeforeStage
            /\ UNCHANGED <<error, exit_code>>
    /\ UNCHANGED <<inputs, vocab_vars, dirs, files, made, stage, preper, prompts, invoked, console_out>>

\* An exception or sys.exit ends the process.
Throw(r) ==
    IF r.kind = "SystemExit" THEN SysExit(r.code) ELSE Raise([ kind |-> r.kind ])

\* prompt_user_command(command_name): input() returns the line the operator
\* typed, or raises EOFError when standard input is at end of file.  On "n" the
\* console logs the exit (a console that is None raises AttributeError there)
\* and sys.exit(0) follows.
prompt_user_command(choice, cons) ==
    IF choice = EOF
    THEN [ kind |-> "EOFError" ]
    ELSE IF Lower(choice) = <<"n">>
    THEN IF cons = NoConsole
         THEN [ kind |-> "AttributeError" ]
         ELSE [ kind |-> "SystemExit", code |-> 0 ]
    ELSE [ kind |-> "return" ]

\* The history of the answers: a line read by input(); at end of file there
\* is no answer.
Answered(command_name, choice) ==
    IF choice = EOF
    THEN prompts
    ELSE Append(prompts, [ stage |-> stage, command_name |-> command_name,
                           choice |-> choice ])

\* run_sfm calls prompt_user_command for the stage it is at.
PromptUser(choice) ==
    /\ pc = "prompt"
    /\ prompts' = Answered(StageNames[stage], choice)
    /\ LET r == prompt_user_command(choice, console)
       IN  IF r.kind = "return"
           THEN /\ pc' = "run"
                /\ UNCHANGED <<error, exit_code>>
           ELSE Throw(r)
    /\ UNCHANGED <<inputs, vocab_vars, dirs, files, made, stage, preper, invoked, console_out>>

\* str(x) of a character sequence, as a string.
RECURSIVE Str(_)
Str(s) == IF s = <<>> THEN "" ELSE Head(s) \o Str(Tail(s))

\* sep.join(list)
RECURSIVE Join(_, _)
Join(sep, list) ==
    IF list = <<>> THEN ""
    ELSE IF Len(list) = 1 THEN list[1]
    ELSE list[1] \o sep \o Join(sep, Tail(list))

\* The list feature_extractor_cmd, before it is joined.
feature_extractor_cmd(p) ==
    << "colmap feature_extractor",
       "--database_path " \o p.database_path,
       "--image_path " \o p.image_dir,
       "--ImageReader.single_camera 1",
       "--ImageReader.camera_model " \o p.camera_model,
       "--SiftExtraction.use_gpu " \o ToString(p.use_gpu) >>

\* Mutant: the vocab-tree argument is appended whatever the matching method.
feature_matcher_cmd_AlwaysVocabTree(p, vtp) ==
    << "colmap " \o p.matching_method \o "_matcher",
       "--database_path " \o p.database_path,
       "--SiftMatching.use_gpu " \o ToString(p.use_gpu),
       "--VocabTreeMatching.vocab_tree_path \"" \o Str(vtp) \o "\"" >>

\* The list feature_matcher_cmd, before it is joined.
feature_matcher_cmd(p, vtp) ==
    << "colmap " \o p.matching_method \o "_matcher",
       "--database_path " \o p.database_path,
       "--SiftMatching.use_gpu " \o ToString(p.use_gpu) >>
    \o ( IF p.matching_method = "vocab_tree"
         THEN << "--VocabTreeMatching.vocab_tree_path \"" \o Str(vtp) \o "\"" >>
         ELSE <<>> )

\* Mutant: the tolerance flag is appended whatever the tool.
mapper_cmd_AlwaysTolerance(p, out) ==
    << p.sfm_tool \o " mapper",
       "--database_path " \o p.database_path,
       "--image_path " \o p.image_dir,
       "--output_path " \o Join("/", sparse_dir(out, p)),
       "--Mapper.ba_global_function_tolerance=1e-6" >>

\* The list mapper_cmd, before it is joined.
mapper_cmd(p, out) ==
    << p.sfm_tool \o " mapper",
       "--database_path " \o p.database_path,
       "--image_path " \o p.image_dir,
       "--output_path " \o Join("/", sparse_dir(out, p)) >>
    \o ( IF p.sfm_tool = "colmap"
         THEN << "--Mapper.ba_global_function_tolerance=1e-6" >>
         ELSE <<>> )

\* The list run_sfm has built for the stage it is at.
StageArgs ==
    CASE stage = 1 -> feature_extractor_cmd(preper)
      [] stage = 2 -> feature_matcher_cmd(preper, vocab_tree_path)
      [] stage = 3 -> mapper_cmd(preper, output_dir)

\* The subprocess.run call of run_command, as recorded in the history.
Invocation(returncode) ==
    [ stage |-> stage, args |-> StageArgs, cmd |-> Join(" ", StageArgs),
      returncode |-> returncode ]

\* What run_sfm does after run_command has returned: the next stage's command
\* is built (after matching, the sparse directory is made first); after the
\* mapper run_sfm returns and the script ends.
StageSucceeded ==
    CASE stage = 1 -> /\ stage' = 2
                      /\ pc' = BeforeStage
                      /\ UNCHANGED <<error, exit_code>>
      [] stage = 2 -> /\ stage' = 3
                      /\ pc' = "mkdir"
                      /\ UNCHANGED <<error, exit_code>>
      [] stage = 3 -> /\ pc' = "done"
                      /\ exit_code' = {0}
                      /\ UNCHANGED <<stage, error>>

\* Mutant: the exit status of the command is not looked at.
run_command_IgnoreStatus(cmd, verb, cons, returncode, stdout, stderr) ==
    [ kind |-> "return", printed |-> <<>> ]

\* run_command(cmd, verbose): subprocess.run has returned returncode, with
\* stdout and stderr captured unless verbose is set.
\* On a non-zero status the rule and the failing command are printed (a
\* console that is None raises AttributeError at the rule), then
\* out.stderr.decode is evaluated: with verbose the output is not captured,
\* out.stderr is None and AttributeError is raised; else the bytes are decoded
\* (UnicodeDecodeError), the text is printed (MarkupError, or ValueError from
\* a colour that cannot be read) and sys.exit(1) follows.  On status 0 the
\* captured stdout is decoded and returned (UnicodeDecodeError); with verbose
\* there is no stdout and out is returned.
\* printed is what the call has put on the console.
run_command(cmd, verb, cons, returncode, stdout, stderr) ==
    LET print(shown) ==
            IF shown.kind # "ok"
            THEN [ kind |-> shown.kind,
                   printed |-> << <<"command", cmd>> >> ]
            ELSE [ kind |-> "SystemExit", code |-> 1,
                   printed |-> << <<"command", cmd>>,
                                  <<"stderr", shown.plain>> >> ]
        decoded_stderr(text) ==
            IF text.kind # "ok"
            THEN [ kind |-> "UnicodeDecodeError",
                   printed |-> << <<"command", cmd>> >> ]
            ELSE print(console_print(text.text))
    IN  IF returncode # 0
        THEN IF cons = NoConsole
             THEN [ kind |-> "AttributeError", printed |-> <<>> ]
             ELSE IF verb
             THEN [ kind |-> "AttributeError",
                    printed |-> << <<"command", cmd>> >> ]
             ELSE decoded_stderr(decode_utf8(stderr))
        ELSE IF verb
        THEN [ kind |-> "return", printed |-> <<>> ]
        ELSE IF decode_utf8(stdout).kind # "ok"
        THEN [ kind |-> "UnicodeDecodeError", printed |-> <<>> ]
        ELSE [ kind |-> "return", printed |-> <<>> ]

\* rich.spinner.SPINNERS: the names of the spinners.
SPINNERS ==
    { "aesthetic", "arc", "arrow", "arrow2", "arrow3", "balloon", "balloon2",
      "betaWave", "bounce", "bouncingBall", "bouncingBar", "boxBounce",
      "boxBounce2", "christmas", "circle", "circleHalves", "circleQuarters",
      "clock", "dots", "dots10", "dots11", "dots12", "dots2", "dots3",
      "dots4", "dots5", "dots6", "dots7", "dots8", "dots8Bit", "dots9",
      "dqpb", "earth", "flip", "grenade", "growHorizontal", "growVertical",
      "hamburger", "hearts", "layer", "line", "line2", "material", "monkey",
      "moon", "noise", "pipe", "point", "pong", "runner", "shark",
      "simpleDots", "simpleDotsScrolling", "smiley", "squareCorners",
      "squish", "star", "star2", "toggle", "toggle10", "toggle11",
      "toggle12", "toggle13", "toggle2", "toggle3", "toggle4", "toggle5",
      "toggle6", "toggle7", "toggle8", "toggle9", "triangle", "weather" }

\* status(msg, spinner, verbose): nullcontext() with verbose; else
\* console.status(msg, spinner=spinner), which raises AttributeError on a console
\* that is None and KeyError for a spinner that does not exist.
status(spinner, verb, cons) ==
    IF verb THEN [ kind |-> "return" ]
    ELSE IF cons = NoConsole THEN [ kind |-> "AttributeError" ]
    ELSE IF spinner \notin SPINNERS THEN [ kind |-> "KeyError" ]
    ELSE [ kind |-> "return" ]

\* with status(..., spinner="moon", verbose=verbose): run_command(...) for the
\* stage run_sfm is at; when the call returns run_sfm goes on, else the process
\* ends there.
RunCommand(returncode, stdout, stderr) ==
    /\ pc = "run"
    /\ LET s == status("moon", verbose, console)
           r == run_command(Join(" ", StageArgs), verbose, console,
                            returncode, stdout, stderr)
       IN  IF s.kind # "return"
           THEN /\ Throw(s)
                /\ UNCHANGED <<invoked, console_out, stage>>
           ELSE /\ invoked' = Append(invoked, Invocation(returncode))
                /\ console_out' = console_out \o r.printed
                /\ IF r.kind = "return"
                   THEN StageSucceeded
                   ELSE /\ Throw(r)
                        /\ UNCHANGED stage
    /\ UNCHANGED <<inputs, vocab_vars, dirs, files, made, preper, prompts>>

\* Mutant: the directory is not made.
MakeSparseDir_NoMkdir ==
    /\ pc = "mkdir"
    /\ pc' = BeforeStage
    /\ UNCHANGED <<inputs, vocab_vars, dirs, files, made, stage, preper, prompts, invoked,
                   console_out, error, exit_code>>

\* sparse_dir.mkdir(parents=True, exist_ok=True)
MakeSparseDir ==
    /\ pc = "mkdir"
    /\ LET r == mkdir(dirs, files, sparse_dir(output_dir, preper))
       IN  IF r.kind = "ok"
           THEN /\ dirs' = r.dirs
                /\ made' = made \cup (r.dirs \ dirs)
                /\ pc' = BeforeStage
                /\ UNCHANGED <<error, exit_code>>
           ELSE /\ Raise(r)
                /\ UNCHANGED <<dirs, made>>
    /\ UNCHANGED <<inputs, vocab_vars, files, stage, preper, prompts, invoked, console_out>>

Next ==
    \/ ReadConfig
    \/ CheckVocabTree
    \/ \E choice \in Responses \cup { EOF } : PromptUser(choice)
    \/ \E returncode \in ReturnCodes, stdout \in StdoutBytes,
          stderr \in StderrBytes : RunCommand(returncode, stdout, stderr)
    \/ MakeSparseDir

Spec == Init /\ [][Next]_vars

\* run_sfm is one sequential thread: as long as a step is possible one is
\* taken, every command and every prompt returning in the end.
FairSpec == Spec /\ WF_vars(Next)

-----------------------------------------------------------------------------
(* vocab_tree.py: get_vocab_tree, called once by every run of the script    *)

\* prep_data.py is not running.
PipelineIdle ==
    /\ config_data = <<>>
    /\ output_dir = "out"
    /\ vocab_tree_path = None
    /\ prompt = FALSE
    /\ verbose = FALSE
    /\ console = CONSOLE
    /\ dirs = {}
    /\ files = {}
    /\ made = {}
    /\ pc = "idle"
    /\ stage = 1
    /\ preper = NoPreper
    /\ prompts = <<>>
    /\ invoked = <<>>
    /\ console_out = <<>>
    /\ error = NoError
    /\ exit_code = {}

pipeline_vars ==
    <<config_data, output_dir, vocab_tree_path, prompt, verbose, console, dirs,
      files, made, pc, stage, preper, prompts, invoked, console_out, error, exit_code>>

\* Path(appdirs.user_data_dir("nerfstudio")) / "vocab_tree.fbow"
vocab_tree_filename == << "user_data_dir", "nerfstudio", "vocab_tree.fbow" >>

\* The chunks iter_content may yield; "" is an empty chunk.
Chunks == { "", "x", "y" }

\* The responses requests.get may return: the content-length header is there
\* or not, and the body arrives as a sequence of chunks.
Responses_get ==
    { [ content_length |-> h, stream |-> st ] :
        h \in BOOLEAN,
        st \in UNION { [ 1..n -> Chunks ] : n \in 0..MaxChunks } }

\* The cache file before the first call: absent, or left by an earlier run.
VocabInit ==
    /\ PipelineIdle
    /\ vt_pc = "idle"
    /\ \/ cache_exists = FALSE /\ cache_content = <<>>
       \/ cache_exists = TRUE /\ cache_content = << "x" >>
    /\ response = NoResponse
    /\ requests = 0
    /\ vt_call = NoCall
    /\ vt_calls = <<>>

\* The call ends, by return (path is the value returned) or by an exception
\* (path is None); exists and content are the cache file as the call leaves it.
EndCall(outcome, path, exists, content) ==
    /\ vt_calls' = Append(vt_calls,
           [ outcome |-> outcome, existed |-> vt_call.existed,
             requests |-> vt_call.requests, path |-> path,
             exists |-> exists, content |-> content,
             unread |-> response.stream ])
    /\ vt_pc' = "idle"
    /\ vt_call' = NoCall
    /\ response' = NoResponse

\* Mutant: the download does not depend on the cache file being there.
Call_AlwaysDownload ==
    /\ vt_pc = "idle"
    /\ Len(vt_calls) < MaxCalls
    /\ vt_pc' = "request"
    /\ vt_call' = [ existed |-> cache_exists, requests |-> 0 ]
    /\ UNCHANGED <<pipeline_vars, cache_exists, cache_content, response,
                   requests, vt_calls>>

\* get_vocab_tree() is called: with the cache file there it returns the path
\* at once, else it goes on to the request.
Call ==
    /\ vt_pc = "idle"
    /\ Len(vt_calls) < MaxCalls
    /\ IF cache_exists
       THEN /\ vt_calls' = Append(vt_calls,
                   [ outcome |-> "cached", existed |-> TRUE, requests |-> 0,
                     path |-> vocab_tree_filename, exists |-> cache_exists,
                     content |-> cache_content, unread |-> <<>> ])
            /\ UNCHANGED <<vt_pc, vt_call>>
       ELSE /\ vt_pc' = "request"
            /\ vt_call' = [ existed |-> FALSE, requests |-> 0 ]
            /\ UNCHANGED vt_calls
    /\ UNCHANGED <<pipeline_vars, cache_exists, cache_content, response, requests>>

\* r = requests.get(url, stream=True) returns the response r.
Request(r) ==
    /\ vt_pc = "request"
    /\ requests' = requests + 1
    /\ vt_call' = [ vt_call EXCEPT !.requests = @ + 1 ]
    /\ response' = r
    /\ vt_pc' = "open"
    /\ UNCHANGED <<pipeline_vars, cache_exists, cache_content, vt_calls>>

\* requests.get raises (the host cannot be reached): the call ends before the
\* cache file is created.
RequestFails ==
    /\ vt_pc = "request"
    /\ requests' = requests + 1
    /\ vt_calls' = Append(vt_calls,
           [ outcome |-> "request_failed", existed |-> vt_call.existed,
             requests |-> vt_call.requests + 1, path |-> None,
             exists |-> cache_exists, content |-> cache_content,
             unread |-> <<>> ])
    /\ vt_pc' = "idle"
    /\ vt_call' = NoCall
    /\ UNCHANGED <<pipeline_vars, cache_exists, cache_content, response>>

\* The parent directory is made and open(vocab_tree_filename, "wb") creates
\* the empty cache file; then the content-length header is asserted to be
\* there, and AssertionError ends the call when it is not.
OpenCacheFile ==
    /\ vt_pc = "open"
    /\ cache_exists' = TRUE
    /\ cache_content' = <<>>
    /\ IF response.content_length
       THEN /\ vt_pc' = "write"
            /\ UNCHANGED <<response, vt_call, vt_calls>>
       ELSE EndCall("no_content_length", None, TRUE, <<>>)
    /\ UNCHANGED <<pipeline_vars, requests>>

\* One turn of the loop over r.iter_content: a chunk that is not empty is
\* written and flushed.
WriteChunk ==
    /\ vt_pc = "write"
    /\ response.stream # <<>>
    /\ cache_content' = IF Head(response.stream) # ""
                        THEN Append(cache_content, Head(response.stream))
                        ELSE cache_content
    /\ response' = [ response EXCEPT !.stream = Tail(@) ]
    /\ UNCHANGED <<pipeline_vars, vt_pc, cache_exists, requests, vt_call, vt_calls>>

\* Mutant: a download that is interrupted removes the file it was writing.
Interrupt_RemovesPartial ==
    /\ vt_pc = "write"
    /\ response.stream # <<>>
    /\ cache_exists' = FALSE
    /\ cache_content' = <<>>
    /\ EndCall("interrupted", None, FALSE, <<>>)
    /\ UNCHANGED <<pipeline_vars, requests>>

\* The download is interrupted while chunks are still to come (iter_content
\* raises): the with statement closes the file and the exception ends the call.
Interrupt ==
    /\ vt_pc = "write"
    /\ response.stream # <<>>
    /\ EndCall("interrupted", None, cache_exists, cache_content)
    /\ UNCHANGED <<pipeline_vars, cache_exists, cache_content, requests>>

\* The loop is over: return vocab_tree_filename.
Return ==
    /\ vt_pc = "write"
    /\ response.stream = <<>>
    /\ EndCall("downloaded", vocab_tree_filename, cache_exists, cache_content)
    /\ UNCHANGED <<pipeline_vars, cache_exists, cache_content, requests>>

VocabNext ==
    \/ Call
    \/ \E r \in Responses_get : Request(r)
    \/ RequestFails
    \/ OpenCacheFile
    \/ WriteChunk
    \/ Interrupt
    \/ Return

VocabSpec == VocabInit /\ [][VocabNext]_vars

-----------------------------------------------------------------------------
(* utils/log_utils.py: run_command and prompt_user_command, the same        *)
(* functions with the console as an argument, called one after the other by *)
(* a program that imports them                                              *)

\* Commands the caller passes.
UtilsCommands == { "colmap -h", "glomap -h" }

UtilsInit ==
    /\ VocabIdle
    /\ config_data = <<>>
    /\ output_dir = "out"
    /\ vocab_tree_path = None
    /\ prompt \in BOOLEAN
    /\ verbose \in BOOLEAN
    /\ console \in { CONSOLE, NoConsole }
    /\ dirs = {}
    /\ files = {}
    /\ made = {}
    /\ pc = "caller"
    /\ stage = 1
    /\ preper = NoPreper
    /\ prompts = <<>>
    /\ invoked = <<>>
    /\ console_out = <<>>
    /\ error = NoError
    /\ exit_code = {}

\* run_command(cmd, verbose, console)
UtilsRunCommand(cmd, returncode, stdout, stderr) ==
    /\ pc = "caller"
    /\ Len(invoked) < MaxCalls
    /\ invoked' = Append(invoked, [ stage |-> stage, args |-> << cmd >>,
                                    cmd |-> cmd, returncode |-> returncode ])
    /\ LET r == run_command(cmd, verbose, console, returncode, stdout, stderr)
       IN  /\ console_out' = console_out \o r.printed
           /\ IF r.kind = "return"
              THEN UNCHANGED <<pc, error, exit_code>>
              ELSE Throw(r)
    /\ UNCHANGED <<inputs, vocab_vars, dirs, files, made, stage, preper, prompts>>

\* prompt_user_command(command_name, console)
UtilsPromptUser(command_name, choice) ==
    /\ pc = "caller"
    /\ prompt
    /\ Len(prompts) < MaxCalls
    /\ prompts' = Answered(command_name, choice)
    /\ LET r == prompt_user_command(choice, console)
       IN  IF r.kind = "return"
           THEN UNCHANGED <<pc, error, exit_code>>
           ELSE Throw(r)
    /\ UNCHANGED <<inputs, vocab_vars, dirs, files, made, stage, preper, invoked,
                   console_out>>

\* Spinner names a caller may pass to status.
SpinnerNames == { "bouncingBall", "moon", "nosuch" }

\* status(msg, spinner, verbose, console)
UtilsStatus(spinner) ==
    /\ pc = "caller"
    /\ LET r == status(spinner, verbose, console)
       IN  IF r.kind = "return"
           THEN UNCHANGED <<pc, error, exit_code>>
           ELSE Throw(r)
    /\ UNCHANGED <<inputs, vocab_vars, dirs, files, made, stage, preper, prompts,
                   invoked, console_out>>

UtilsNext ==
    \/ \E spinner \in SpinnerNames : UtilsStatus(spinner)
    \/ \E cmd \in UtilsCommands, returncode \in ReturnCodes,
          stdout \in StdoutBytes, stderr \in StderrBytes :
          UtilsRunCommand(cmd, returncode, stdout, stderr)
    \/ \E k \in 1..Len(StageNames), choice \in Responses \cup { EOF } :
          UtilsPromptUser(StageNames[k], choice)

UtilsSpec == UtilsInit /\ [][UtilsNext]_vars

-----------------------------------------------------------------------------
(* Properties                                                               *)

Terminated == pc \in {"done", "exited"}

\* The answers that decline a prompt.
Declining == { <<"n">>, <<"N">> }

AllStagesSucceeded ==
    /\ Len(invoked) = 3
    /\ \A i \in 1..3 : invoked[i].stage = i /\ invoked[i].returncode = 0

SomeStageFailed == \E i \in 1..Len(invoked) : invoked[i].returncode # 0

OperatorDeclined ==
    /\ prompts # <<>>
    /\ prompts[Len(prompts)].choice \in Declining

\* C1: the commands are invoked in the order feature extraction, feature
\* matching, mapping, each at most once, and a command is invoked only after
\* the commands of all earlier stages have returned exit status 0.
C1_FixedOrder ==
    /\ Len(invoked) <= 3
    /\ \A i \in 1..Len(invoked) :
         /\ invoked[i].stage = i
         /\ \A j \in 1..(i - 1) : invoked[j].returncode = 0

C1_Witness ==
    /\ pc = "done"
    /\ Len(invoked) = 3
    /\ invoked[3].stage = 3

\* C2: when the command of a stage returns a non-zero exit status the process
\* has terminated with a non-zero exit code, and that invocation is the last
\* one of the run: no retry of the command, no command of a later stage.
C2_FailFast ==
    \A i \in 1..Len(invoked) :
        invoked[i].returncode # 0 =>
            /\ pc = "exited"
            /\ exit_code # {}
            /\ 0 \notin exit_code
            /\ i = Len(invoked)

C2_Witness ==
    /\ Len(invoked) = 2
    /\ invoked[2].returncode # 0
    /\ pc = "exited"

\* C3: the exit code is 0 only when all three stages ran and each returned
\* exit status 0; it is non-zero whenever a stage failed and whenever the
\* operator declined a confirmation prompt.
C3_ExitZeroOnlyOnSuccess ==
    Terminated =>
        /\ exit_code = {0} => AllStagesSucceeded
        /\ (SomeStageFailed \/ OperatorDeclined) => 0 \notin exit_code

\* C4: with prompting on, the prompt of a stage precedes the stage's command,
\* and an answer "n" at the prompt of stage k ends the process with no command
\* of stage k or of a later stage invoked.
C4_PromptBeforeCommand ==
    prompt =>
        /\ \A i \in 1..Len(invoked) :
             /\ i <= Len(prompts)
             /\ prompts[i].stage = invoked[i].stage
             /\ prompts[i].command_name = StageNames[invoked[i].stage]
        /\ \A k \in 1..Len(prompts) :
             prompts[k].choice = <<"n">> =>
                 /\ pc = "exited"
                 /\ k = Len(prompts)
                 /\ \A i \in 1..Len(invoked) : invoked[i].stage < prompts[k].stage

C4_Witness ==
    /\ prompt
    /\ Len(prompts) = 2
    /\ prompts[2].choice = <<"n">>
    /\ Len(invoked) = 1
    /\ pc = "exited"

\* Answers an operator means as a refusal.
Negative == { <<"n">>, <<"N">>, <<"n", "o">> }

\* C5 as stated: with prompting on, no command is invoked after a negative
\* answer to its prompt, whichever negative answer it is.
C5_AnyNegativeAborts ==
    prompt =>
        \A i \in 1..Len(invoked) : prompts[i].choice \notin Negative

\* C5, amended: with prompting on, a command is invoked only if the answer to
\* its prompt is neither "n" nor "N"; these two answers end the process before
\* the command runs, and every other answer (the empty line and "no" too) is
\* followed by the command.
C5_OnlyNAborts ==
    prompt =>
        /\ \A i \in 1..Len(invoked) : prompts[i].choice \notin Declining
        /\ \A k \in 1..Len(prompts) :
             IF prompts[k].choice \in Declining
             THEN pc = "exited" /\ Len(invoked) = k - 1
             ELSE (pc = "run" /\ Len(invoked) = k - 1) \/ Len(invoked) >= k

C5_Witness ==
    /\ prompt
    /\ Len(prompts) = 1
    /\ prompts[1].choice = <<"n", "o">>
    /\ Len(invoked) = 1

\* The configuration file has every key and every enumerated field holds one
\* of its allowed values.
ValidConfig ==
    /\ \A i \in 1..Len(Fields) : Fields[i] \in DOMAIN config_data
    /\ \A f \in DOMAIN Allowed : config_data[f] \in Allowed[f]

\* Vocab-tree paths that are null or do not end in ".fbow".
BadVocabTreePaths ==
    { None, <<"t", ".", "b", "i", "n">>, <<"f", "b", "o", "w">> }

\* C6: with a valid configuration whose matching_method is vocab_tree and a
\* vocab-tree path that is null or lacks the .fbow ending, the run fails with
\* the invalid-vocab-tree-path error (FileNotFoundError in the code), the same
\* for the null path as for the wrong ending, and no command is invoked.
C6_InvalidVocabTreePath ==
    ( /\ ValidConfig
      /\ config_data.matching_method = "vocab_tree"
      /\ vocab_tree_path \in BadVocabTreePaths
      /\ pc \notin {"read_config", "check_vocab"} )
    => /\ pc = "exited"
       /\ error.kind = "FileNotFoundError"
       /\ invoked = <<>>

\* Enumerated fields of the configuration file that hold a value outside
\* their closed set.
OffendingFields ==
    { f \in DOMAIN Allowed \cap DOMAIN config_data : config_data[f] \notin Allowed[f] }

\* C7: for every configuration in which an enumerated field holds a value
\* outside its closed set, constructing the configuration fails with an error
\* (ValueError in the code) that names such a field, the value it holds and the
\* allowed set of that field, and no command has been invoked, then or later.
C7_InvalidEnumValue ==
    ( OffendingFields # {} /\ pc # "read_config" )
    => /\ pc = "exited"
       /\ error.kind = "ValueError"
       /\ error.field \in OffendingFields
       /\ error.value = config_data[error.field]
       /\ error.allowed = Allowed[error.field]
       /\ invoked = <<>>
       /\ preper = NoPreper

\* The fields the specification gives a default to.
DefaultedFields ==
    { "train_method", "sfm_tool", "matching_method", "camera_model", "use_gpu" }

\* C8: a configuration file that has database_path and image_dir and omits
\* any of the fields with a declared default loads, and every omitted field
\* has its declared default value.
C8_DefaultsApplied ==
    ( /\ {"database_path", "image_dir"} \subseteq DOMAIN config_data
      /\ OffendingFields = {}
      /\ pc # "read_config" )
    => /\ preper # NoPreper
       /\ \A f \in DefaultedFields \ DOMAIN config_data : preper[f] = Defaults[f]
       /\ \A f \in DOMAIN config_data : preper[f] = config_data[f]

\* C9: a configuration file without database_path or without image_dir fails
\* to load with a missing-field error (KeyError in the code) that names such
\* a field, and no command is invoked.
C9_MissingRequiredField ==
    ( /\ {"database_path", "image_dir"} \ DOMAIN config_data # {}
      /\ pc # "read_config" )
    => /\ pc = "exited"
       /\ error.kind = "KeyError"
       /\ error.field \in {"database_path", "image_dir"} \ DOMAIN config_data
       /\ invoked = <<>>

MappingInvoked == \E i \in 1..Len(invoked) : invoked[i].stage = 3

\* C10: in every state in which the mapping command is about to be invoked or
\* has been invoked, output_dir/<sfm_tool>/sparse is a directory; and making
\* the directory when it is there already changes nothing and raises nothing:
\* run_sfm goes on to the mapper.
C10_SparseDirExists ==
    /\ [] ( ((pc \in {"prompt", "run"} /\ stage = 3) \/ MappingInvoked)
            => << output_dir, preper.sfm_tool, "sparse" >> \in dirs )
    /\ [][ ( /\ pc = "mkdir"
             /\ << output_dir, preper.sfm_tool, "sparse" >> \in dirs )
           => ( /\ pc' = (IF prompt THEN "prompt" ELSE "run")
                /\ stage' = 3
                /\ dirs' = dirs
                /\ files' = files
                /\ error' = NoError ) ]_vars

\* The mapper has run with colmap, and glomap's directory is there too: the
\* run started with both sparse directories in place.
C10_Witness ==
    /\ MappingInvoked
    /\ preper.sfm_tool = "colmap"
    /\ << output_dir, "colmap", "sparse" >> \in dirs
    /\ << output_dir, "glomap", "sparse" >> \in dirs

Range(seq) == { seq[i] : i \in 1..Len(seq) }

ToleranceFlag == "--Mapper.ba_global_function_tolerance=1e-6"

\* C11: the mapping command starts with the binary the reconstruction tool
\* names, and holds the bundle-adjustment tolerance flag exactly when the tool
\* is colmap: the command is the colmap line with the flag, or the glomap line
\* without it.
C11_MapperCommand ==
    \A i \in 1..Len(invoked) :
        invoked[i].stage = 3 =>
            /\ invoked[i].args[1] =
                 (IF config_data.sfm_tool = "colmap" THEN "colmap mapper"
                                                     ELSE "glomap mapper")
            /\ ToleranceFlag \in Range(invoked[i].args)
                 <=> config_data.sfm_tool = "colmap"
            /\ invoked[i].cmd =
                 (IF config_data.sfm_tool = "colmap"
                  THEN "colmap mapper --database_path db.db --image_path imgs "
                       \o "--output_path out/colmap/sparse "
                       \o "--Mapper.ba_global_function_tolerance=1e-6"
                  ELSE "glomap mapper --database_path db.db --image_path imgs "
                       \o "--output_path out/glomap/sparse")

C11_Witness ==
    /\ MappingInvoked
    /\ config_data.sfm_tool = "glomap"
    /\ ToleranceFlag \notin Range(invoked[3].args)

MatcherSubCommand ==
    [ exhaustive |-> "colmap exhaustive_matcher",
      sequential |-> "colmap sequential_matcher",
      vocab_tree |-> "colmap vocab_tree_matcher" ]

GpuFlag == [ g \in {0, 1} |-> IF g = 0 THEN "--SiftMatching.use_gpu 0"
                                       ELSE "--SiftMatching.use_gpu 1" ]

VocabTreeArgs ==
    { "--VocabTreeMatching.vocab_tree_path \"t.fbow\"",
      "--VocabTreeMatching.vocab_tree_path \".fbow\"",
      "--VocabTreeMatching.vocab_tree_path \"t.bin\"",
      "--VocabTreeMatching.vocab_tree_path \"fbow\"",
      "--VocabTreeMatching.vocab_tree_path \"<None>\"" }

\* The matching command of a run: the sub-command, the database path, the GPU
\* flag, and the vocab-tree path argument exactly with vocab_tree; no
\* FileNotFoundError with exhaustive or sequential.
C12_MatcherArgs ==
    /\ \A i \in 1..Len(invoked) :
         invoked[i].stage = 2 =>
             /\ invoked[i].args[1] = MatcherSubCommand[config_data.matching_method]
             /\ invoked[i].args[2] = "--database_path db.db"
             /\ invoked[i].args[3] = GpuFlag[config_data.use_gpu]
             /\ (Range(invoked[i].args) \cap VocabTreeArgs # {})
                  <=> config_data.matching_method = "vocab_tree"
             /\ config_data.matching_method = "vocab_tree"
                  => invoked[i].args[4] =
                       "--VocabTreeMatching.vocab_tree_path \""
                       \o Str(vocab_tree_path) \o "\""
    /\ ( /\ ValidConfig
         /\ config_data.matching_method \in {"exhaustive", "sequential"} )
       => error.kind # "FileNotFoundError"

\* C12: the matching command names the sub-command <matching_method>_matcher
\* and carries the database path and the GPU flag; it carries the vocab-tree
\* path argument exactly when matching_method is vocab_tree; and with
\* exhaustive or sequential no vocab-tree path, null or without .fbow, makes the
\* vocab-tree check fail: the check lets the run go on to the first stage.
C12_MatcherCommand ==
    /\ [] C12_MatcherArgs
    /\ [][ ( /\ pc = "check_vocab"
             /\ preper.matching_method \in {"exhaustive", "sequential"} )
           => ( /\ pc' = (IF prompt THEN "prompt" ELSE "run")
                /\ stage' = 1
                /\ error' = NoError
                /\ exit_code' = {} ) ]_vars

C12_Witness ==
    /\ Len(invoked) >= 2
    /\ config_data.matching_method = "sequential"
    /\ vocab_tree_path = None
    /\ Len(invoked[2].args) = 3

\* C14: whether or not verbose is set, when a command returns a non-zero
\* exit status run_command prints the failing command and the standard-error
\* text and the process ends through sys.exit(1), no other exception raised.
C14_ErrorExit ==
    \A i \in 1..Len(invoked) :
        invoked[i].returncode # 0 =>
            /\ <<"command", invoked[i].cmd>> \in Range(console_out)
            /\ \E text \in StderrTexts : <<"stderr", text>> \in Range(console_out)
            /\ error.kind = "SystemExit"
            /\ error.code = 1
            /\ exit_code = {1}

SomeDownloadCompleted ==
    \E i \in 1..Len(vt_calls) : vt_calls[i].outcome = "downloaded"

\* C13: get_vocab_tree issues a request only in a call that found no cache
\* file; after a call that completed its download every later call returns the
\* same path, issues no request and leaves the cache file as it was.
C13_DownloadOnce ==
    /\ [] ( \A i \in 1..Len(vt_calls) :
              /\ vt_calls[i].requests > 0 => ~ vt_calls[i].existed
              /\ vt_calls[i].outcome = "downloaded" =>
                   \A j \in (i + 1)..Len(vt_calls) :
                       /\ vt_calls[j].outcome = "cached"
                       /\ vt_calls[j].path = vt_calls[i].path
                       /\ vt_calls[j].requests = 0
                       /\ vt_calls[j].exists
                       /\ vt_calls[j].content = vt_calls[i].content )
    /\ [][ SomeDownloadCompleted =>
             /\ requests' = requests
             /\ cache_exists' = cache_exists
             /\ cache_content' = cache_content ]_vars

C13_Witness ==
    /\ Len(vt_calls) = 3
    /\ vt_calls[1].outcome = "downloaded"
    /\ vt_calls[1].content = << "x", "y" >>
    /\ vt_calls[3].outcome = "cached"
    /\ requests = 1

\* C15: a call that fails after the cache file has been opened for writing
\* leaves the file, partial as it is, and every later call returns the path
\* with no request and the file untouched; a call whose request fails leaves no
\* file, and the call after it issues a request again.
C15_PartialKept ==
    \A i \in 1..Len(vt_calls) :
        /\ vt_calls[i].outcome \in {"interrupted", "no_content_length"} =>
             /\ vt_calls[i].exists
             /\ \A j \in (i + 1)..Len(vt_calls) :
                  /\ vt_calls[j].outcome = "cached"
                  /\ vt_calls[j].path = vocab_tree_filename
                  /\ vt_calls[j].requests = 0
                  /\ vt_calls[j].exists
                  /\ vt_calls[j].content = vt_calls[i].content
        /\ vt_calls[i].outcome = "request_failed" =>
             /\ ~ vt_calls[i].exists
             /\ i < Len(vt_calls) =>
                  /\ vt_calls[i + 1].outcome # "cached"
                  /\ vt_calls[i + 1].requests = 1

C15_Witness ==
    /\ Len(vt_calls) = 3
    /\ vt_calls[1].outcome = "request_failed"
    /\ vt_calls[2].outcome = "interrupted"
    /\ vt_calls[2].content = << "x" >>
    /\ vt_calls[2].unread # <<>>
    /\ vt_calls[3].outcome = "cached"
    /\ vt_calls[3].content = << "x" >>

\* The configuration is rejected before the first stage: a key is missing, an
\* enumerated value is outside its set, or vocab_tree comes without a path
\* ending in .fbow.
ConfigError ==
    \/ ~ ValidConfig
    \/ /\ config_data.matching_method = "vocab_tree"
       /\ vocab_tree_path \in BadVocabTreePaths

MatchingSucceeded ==
    /\ Len(invoked) >= 2
    /\ invoked[2].stage = 2
    /\ invoked[2].returncode = 0

\* A component of output_dir/<sfm_tool>/sparse is a regular file.
SparsePathBlocked ==
    \E k \in 1..3 :
        SubSeq(<< output_dir, config_data.sfm_tool, "sparse" >>, 1, k) \in files

OutcomeDone == pc = "done" /\ AllStagesSucceeded

OutcomeCancelled ==
    /\ pc = "exited"
    /\ OperatorDeclined
    /\ Len(prompts) = Len(invoked) + 1

OutcomeFailedAsStated == pc = "exited" /\ (ConfigError \/ SomeStageFailed)

\* input() found standard input at end of file.
PromptAtEndOfFile == error.kind = "EOFError"

\* The last command returned 0 and its captured output is not UTF-8.
OutputNotDecoded ==
    /\ error.kind = "UnicodeDecodeError"
    /\ invoked # <<>>
    /\ invoked[Len(invoked)].returncode = 0

OutcomeFailed ==
    /\ pc = "exited"
    /\ \/ ConfigError
       \/ SomeStageFailed
       \/ (MatchingSucceeded /\ Len(invoked) = 2 /\ SparsePathBlocked)
       \/ PromptAtEndOfFile
       \/ OutputNotDecoded

ExactlyOne(a, b, c) ==
    /\ a \/ b \/ c
    /\ ~ (a /\ b)
    /\ ~ (a /\ c)
    /\ ~ (b /\ c)

\* C16 as stated: a run that has ended is Done, Failed through a configuration
\* error or a stage's non-zero exit, or Cancelled, and only one of them.
C16_OutcomeAsStated ==
    Terminated => ExactlyOne(OutcomeDone, OutcomeFailedAsStated, OutcomeCancelled)

\* C16, amended: every run ends, and it ends in exactly one of Done, Failed
\* (configuration error, a stage's non-zero exit, the sparse directory that
\* cannot be made, a prompt at end of file, or the output of a command that
\* returned 0 and cannot be decoded) and Cancelled; once the run has ended nothing changes any
\* more, and no command is invoked.
C16_TerminalOutcome ==
    /\ <> Terminated
    /\ [] ( Terminated => ExactlyOne(OutcomeDone, OutcomeFailed, OutcomeCancelled) )
    /\ [][ Terminated => ( /\ pc' = pc
                           /\ invoked' = invoked
                           /\ exit_code' = exit_code
                           /\ error' = error ) ]_vars

C16_Witness ==
    /\ pc = "exited"
    /\ MatchingSucceeded
    /\ SparsePathBlocked
    /\ error.kind \in {"FileExistsError", "NotADirectoryError"}
    /\ OutcomeFailed

\* C17 as stated: at the end of a run the sparse directory is there if matching
\* completed successfully, and the run has created no directory if it did not.
C17_DirIffMatchingSucceeded ==
    Terminated =>
        IF MatchingSucceeded
        THEN << output_dir, preper.sfm_tool, "sparse" >> \in dirs
        ELSE made = {}

\* The matching command returned 0 and run_command returned to run_sfm.
MatchingCompleted ==
    MatchingSucceeded /\ ~ (Len(invoked) = 2 /\ OutputNotDecoded)

\* C17, amended: at the end of a run, if matching completed successfully (the
\* command returned 0 and its captured output was decoded) and no component of
\* the sparse path is a regular file, the sparse directory is there (also when
\* the mapper prompt was declined or found end of file, or the mapper failed)
\* and the run has created nothing but that path; in every other run (ended
\* during extraction or matching, or mkdir raised on the file in the way) the
\* run has created no directory.
C17_SparseDirFrame ==
    Terminated =>
        IF MatchingCompleted /\ ~ SparsePathBlocked
        THEN /\ << output_dir, preper.sfm_tool, "sparse" >> \in dirs
             /\ made \subseteq
                  { SubSeq(<< output_dir, preper.sfm_tool, "sparse" >>, 1, k) :
                      k \in 1..3 }
        ELSE /\ made = {}
             /\ MatchingCompleted =>
                  /\ error.kind \in {"FileExistsError", "NotADirectoryError"}
                  /\ << output_dir, preper.sfm_tool, "sparse" >> \notin dirs

C17_Witness ==
    /\ pc = "exited"
    /\ OperatorDeclined
    /\ Len(invoked) = 2
    /\ << output_dir, preper.sfm_tool, "sparse" >> \in made

====
